---- MODULE Spec2Model ----
(***************************************************************************)
(* OCSP certificate identifiers and response envelopes                     *)
(* (Sources/PackageCollectionsSigningLibc/ocsp_lib.c).                     *)
(*                                                                         *)
(* Two state machines share this module:                                   *)
(*   Spec        a client calling OCSP_cert_to_id / OCSP_cert_id_new, the  *)
(*               body of OCSP_cert_id_new taken one statement at a time;   *)
(*   SpecDecode  a client calling d2i_OCSP_RESPONSE_bio on a byte buffer.  *)
(***************************************************************************)
EXTENDS Integers, Sequences, FiniteSets, TLC

\* ------------------------------------------------------------------ bounds
MaxName == 2        \* distinguished names are 1..MaxName
MaxSerial == 2      \* certificate serial numbers are 1..MaxSerial
MaxResp == 2        \* single responses carried by one basic response
MaxTrail == 1       \* extra bytes appended after a complete response

\* --------------------------------------------------------- option values
None == <<>>
Some(x) == <<x>>

\* ----------------------------------------------- the X.509 provider side
Names == 1..MaxName
Serials == 1..MaxSerial

\* ASN1_BIT_STRING of the public key of the holder of name n: content
\* octets and their count (the key of name n has n + 1 content octets).
PubKeyOf(n) == [length |-> n + 1, data |-> [j \in 1..(n + 1) |-> 16 * n + j]]

\* ASN1_INTEGER holding serial s: its content octets.
SerialOf(s) == <<s>>

Certs == { [subject |-> sn, issuer |-> inm, serialNumber |-> SerialOf(s),
            pubkey |-> PubKeyOf(sn)] : sn \in Names, inm \in Names, s \in Serials }

X509_get_issuer_name(x) == x.issuer
X509_get_subject_name(x) == x.subject
X509_get0_serialNumber(x) == x.serialNumber
X509_get0_pubkey_bitstr(x) == x.pubkey

\* Canonical (DER) encoding of a distinguished name: SEQUENCE, length, body.
NameDer(n) == <<48, 2, 12, n>>

\* DER encoding of a bit string: tag, length, unused-bits octet, content.
BitStringDer(bs) == <<3, bs.length + 1, 0>> \o SubSeq(bs.data, 1, bs.length)

\* ------------------------------------------------- the digest provider
Digests == {"SHA1", "SHA256", "UNREG"}      \* UNREG: no registered identifier
DigestArgs == Digests \cup {"NULL"}          \* NULL: no digest given

NID_undef == 0
V_ASN1_NULL == 5

EVP_sha1 == "SHA1"

EVP_MD_type(d) == CASE d = "SHA1" -> 64
                    [] d = "SHA256" -> 672
                    [] OTHER -> NID_undef

EVP_MD_size(d) == CASE d = "SHA1" -> 20
                    [] d = "SHA256" -> 32
                    [] OTHER -> 16

\* Object identifiers are handles: the registered object of a nid, and the
\* object a freshly allocated X509_ALGOR points at.
OBJ_nid2obj(nid) == [obj |-> "registered", nid |-> nid]
FreshObject == [obj |-> "fresh", nid |-> NID_undef]
NullObject == [obj |-> "null", nid |-> NID_undef]

RECURSIVE ByteSum(_)
ByteSum(s) == IF s = <<>> THEN 0 ELSE Head(s) + 3 * ByteSum(Tail(s))

\* md of EVP_Digest(data, count, md, &size, type): size octets that depend
\* on the algorithm and on every input octet and its position.
DigestOf(d, bytes) ==
    [k \in 1..EVP_MD_size(d) |-> (ByteSum(bytes) * (k + 1) + EVP_MD_type(d) + 7 * Len(bytes)) % 256]

----
\* =================================================== the CertID builder
VARIABLES pc,            \* position of the running call
          args,          \* the arguments the client passed
          dgst, issuerName, issuerKey, serialNumber,   \* OCSP_cert_id_new parameters
          cid,           \* OCSP_CERTID under construction (None: NULL)
          nid, md, i,    \* locals of OCSP_cert_id_new
          failure,       \* the stage that failed in this call ("none": no stage)
          released,      \* objects handed to ASN1_OBJECT_free, in order
          ret,           \* the value returned (None: NULL)
          prev           \* the previous completed call: its arguments and result

VARIABLES dpc,           \* position of the running decode_response
          din,           \* the bytes handed to the decoder
          drest,         \* the bytes of the top-level structure not yet decoded
          dstatus,       \* the response status, once parsed
          dbasic,        \* the basic response, once parsed
          dret           \* the outcome: an error kind, or a Response

cvars == <<pc, args, dgst, issuerName, issuerKey, serialNumber, cid, nid, md, i,
           failure, released, ret, prev>>
dvars == <<dpc, din, drest, dstatus, dbasic, dret>>
vars == <<cvars, dvars>>

NoArgs == [api |-> "none", dgst |-> "NULL", subject |-> None, issuer |-> None,
           issuerName |-> None, issuerKey |-> None, serialNumber |-> None]

ToIdArgs == { [api |-> "OCSP_cert_to_id", dgst |-> d, subject |-> s, issuer |-> Some(c),
               issuerName |-> None, issuerKey |-> None, serialNumber |-> None] :
              d \in DigestArgs, s \in {None} \cup {Some(x) : x \in Certs}, c \in Certs }

NewArgs == { [api |-> "OCSP_cert_id_new", dgst |-> d, subject |-> None, issuer |-> None,
              issuerName |-> Some(n), issuerKey |-> Some(PubKeyOf(k)), serialNumber |-> s] :
             d \in DigestArgs, n \in Names, k \in Names,
             s \in {None} \cup {Some(SerialOf(x)) : x \in Serials} }

\* The optional certificates that differ from x in at most one field (an
\* absent certificate may become any certificate, a present one absent).
CertVariants(x) ==
    IF x = None
      THEN {None} \cup {Some(c) : c \in Certs}
      ELSE {None}
           \cup {Some([x[1] EXCEPT !.subject = n, !.pubkey = PubKeyOf(n)]) : n \in Names}
           \cup {Some([x[1] EXCEPT !.issuer = n]) : n \in Names}
           \cup {Some([x[1] EXCEPT !.serialNumber = SerialOf(n)]) : n \in Serials}

\* The calls that repeat call p or change one position of its arguments.
ArgVariants(p) ==
    IF p.api = "OCSP_cert_to_id"
      THEN {[p EXCEPT !.dgst = d] : d \in DigestArgs}
           \cup {[p EXCEPT !.subject = x] : x \in CertVariants(p.subject)}
           \cup {[p EXCEPT !.issuer = x] : x \in CertVariants(p.issuer) \ {None}}
      ELSE {[p EXCEPT !.dgst = d] : d \in DigestArgs}
           \cup {[p EXCEPT !.issuerName = Some(n)] : n \in Names}
           \cup {[p EXCEPT !.issuerKey = Some(PubKeyOf(n))] : n \in Names}
           \cup {[p EXCEPT !.serialNumber = x] :
                   x \in {None} \cup {Some(SerialOf(n)) : n \in Serials}}

\* The client's first call is any call; each later call repeats the
\* previous one or changes one position of its arguments.
NextArgs == IF prev = None THEN ToIdArgs \cup NewArgs
            ELSE ArgVariants(prev[1].args)

\* OCSP_CERTID_new: an empty CertID.
OCSP_CERTID_new ==
    [hashAlgorithm |-> [algorithm |-> FreshObject, parameter |-> None],
     issuerNameHash |-> <<>>, issuerKeyHash |-> <<>>, serialNumber |-> <<>>]

CInit == /\ pc = "idle"
         /\ args = NoArgs
         /\ dgst = "NULL" /\ issuerName = None /\ issuerKey = None /\ serialNumber = None
         /\ cid = None /\ nid = NID_undef /\ md = <<>> /\ i = 0
         /\ failure = "none" /\ released = <<>> /\ ret = None /\ prev = None

DInit == /\ dpc = "Idle" /\ din = <<>> /\ drest = <<>>
         /\ dstatus = None /\ dbasic = None /\ dret = None

Init == CInit /\ DInit

\* ---- OCSP_cert_to_id
ToId_dgst_Sha256(d) == IF d = "NULL" THEN "SHA256" ELSE d

\* lines 25-26
ToId_dgst(d) == IF d = "NULL" THEN EVP_sha1 ELSE d

ToId_iname_IssuerSubject(subject, issuer) == X509_get_subject_name(issuer)

\* lines 27-33, iname
ToId_iname(subject, issuer) ==
    IF subject # None THEN X509_get_issuer_name(subject[1])
                      ELSE X509_get_subject_name(issuer)

\* lines 27-33, serial
ToId_serial(subject) ==
    IF subject # None THEN Some(X509_get0_serialNumber(subject[1])) ELSE None

\* line 34
ToId_ikey(subject, issuer) == X509_get0_pubkey_bitstr(issuer)

Fresh == /\ cid' = None /\ nid' = NID_undef /\ md' = <<>> /\ i' = 0
         /\ failure' = "none" /\ released' = <<>> /\ ret' = None

OCSP_cert_to_id ==
    /\ pc = "idle"
    /\ \E a \in NextArgs \cap ToIdArgs :
         /\ args' = a
         /\ dgst' = ToId_dgst(a.dgst)
         /\ issuerName' = Some(ToId_iname(a.subject, a.issuer[1]))
         /\ serialNumber' = ToId_serial(a.subject)
         /\ issuerKey' = Some(ToId_ikey(a.subject, a.issuer[1]))
    /\ Fresh
    /\ pc' = "alloc"
    /\ UNCHANGED <<prev, dvars>>

\* ---- OCSP_cert_id_new called directly
OCSP_cert_id_new ==
    /\ pc = "idle"
    /\ \E a \in NextArgs \cap NewArgs :
         /\ args' = a
         /\ dgst' = a.dgst
         /\ issuerName' = a.issuerName
         /\ issuerKey' = a.issuerKey
         /\ serialNumber' = a.serialNumber
    /\ Fresh
    /\ pc' = "alloc"
    /\ UNCHANGED <<prev, dvars>>

Params == <<args, dgst, issuerName, issuerKey, serialNumber>>

\* A failing stage that falls through to the normal return.
Fail_FallThrough(stage) == /\ failure' = stage
                           /\ pc' = "ret"

\* if (...) goto err
Fail(stage) == /\ failure' = stage
               /\ pc' = "err"

\* The cause behind a failed stage, in the terms of the error taxonomy.
CauseOf(stage) ==
    CASE stage = "none" -> "none"
      [] stage = "EVP_MD_type" -> "UnsupportedDigest"
      [] stage = "X509_NAME_digest:encode" -> "EncodingError"
      [] stage \in {"X509_NAME_digest:digest", "EVP_Digest"} -> "DigestError"
      [] OTHER -> "AllocationFailure"

\* line 49: cid = OCSP_CERTID_new()
Alloc ==
    /\ pc = "alloc"
    /\ \/ /\ cid' = Some(OCSP_CERTID_new)
          /\ pc' = "free_alg"
          /\ UNCHANGED failure
       \/ /\ Fail("OCSP_CERTID_new")
          /\ UNCHANGED cid
    /\ UNCHANGED <<Params, nid, md, i, released, ret, prev, dvars>>

\* lines 52-53: alg = cid->hashAlgorithm; ASN1_OBJECT_free(alg->algorithm)
FreeAlgorithm ==
    /\ pc = "free_alg"
    /\ released' = Append(released, cid[1].hashAlgorithm.algorithm)
    /\ pc' = "md_type"
    /\ UNCHANGED <<Params, cid, nid, md, i, failure, ret, prev, dvars>>

\* lines 54-56: nid = EVP_MD_type(dgst); NID_undef goes to err.
\* With a null dgst the read goes through a null pointer: the call ends
\* there, or some identifier is read.
MdType ==
    /\ pc = "md_type"
    /\ \/ /\ dgst # "NULL"
          /\ nid' = EVP_MD_type(dgst)
          /\ IF nid' = NID_undef THEN Fail("EVP_MD_type")
                                 ELSE pc' = "nid2obj" /\ UNCHANGED failure
       \/ /\ dgst = "NULL"
          /\ pc' = "crashed"
          /\ UNCHANGED <<nid, failure>>
       \/ /\ dgst = "NULL"
          /\ \E g \in {EVP_MD_type(x) : x \in Digests} :
               /\ nid' = g
               /\ IF g = NID_undef THEN Fail("EVP_MD_type")
                                   ELSE pc' = "nid2obj" /\ UNCHANGED failure
    /\ UNCHANGED <<Params, cid, md, i, released, ret, prev, dvars>>

SetAlgorithm(c, o) ==
    [c EXCEPT !.hashAlgorithm.algorithm = o]

\* lines 57-58: alg->algorithm = OBJ_nid2obj(nid); NULL goes to err
Nid2Obj ==
    /\ pc = "nid2obj"
    /\ \/ /\ cid' = Some(SetAlgorithm(cid[1], OBJ_nid2obj(nid)))
          /\ pc' = "param"
          /\ UNCHANGED failure
       \/ /\ cid' = Some(SetAlgorithm(cid[1], NullObject))
          /\ Fail("OBJ_nid2obj")
    /\ UNCHANGED <<Params, nid, md, i, released, ret, prev, dvars>>

SetParameter(c) ==
    [c EXCEPT !.hashAlgorithm.parameter = Some([type |-> V_ASN1_NULL])]

\* lines 59-61: alg->parameter = ASN1_TYPE_new(); type = V_ASN1_NULL
Param ==
    /\ pc = "param"
    /\ \/ /\ cid' = Some(SetParameter(cid[1]))
          /\ pc' = "name_digest"
          /\ UNCHANGED failure
       \/ /\ Fail("ASN1_TYPE_new")
          /\ UNCHANGED cid
    /\ UNCHANGED <<Params, nid, md, i, released, ret, prev, dvars>>

\* X509_NAME_digest(name, type, md, &len): the digest of the name's
\* canonical encoding.
X509_NAME_digest(name, d) == DigestOf(d, NameDer(name))

\* lines 63-64: X509_NAME_digest(issuerName, dgst, md, &i).  The name may
\* fail to encode and the hash may fail; a null dgst is dereferenced.
NameDigest ==
    /\ pc = "name_digest"
    /\ \/ /\ dgst # "NULL"
          /\ md' = X509_NAME_digest(issuerName[1], dgst)
          /\ i' = Len(md')
          /\ pc' = "set_name"
          /\ UNCHANGED failure
       \/ /\ \E cause \in {"X509_NAME_digest:encode", "X509_NAME_digest:digest"} :
               Fail(cause)
          /\ UNCHANGED <<md, i>>
       \/ /\ dgst = "NULL"
          /\ pc' = "crashed"
          /\ UNCHANGED <<md, i, failure>>
    /\ UNCHANGED <<Params, cid, nid, released, ret, prev, dvars>>

\* ASN1_OCTET_STRING_set(str, data, len): the first len octets of data.
ASN1_OCTET_STRING_set(data, len) == SubSeq(data, 1, len)

\* The SHA-1 length written instead of the length the digest reported.
SetNameHash_Sha1Length(c, data, len) ==
    [c EXCEPT !.issuerNameHash = ASN1_OCTET_STRING_set(data, 20)]

SetNameHash(c, data, len) ==
    [c EXCEPT !.issuerNameHash = ASN1_OCTET_STRING_set(data, len)]

\* lines 65-66: ASN1_OCTET_STRING_set(cid->issuerNameHash, md, i)
SetName ==
    /\ pc = "set_name"
    /\ \/ /\ cid' = Some(SetNameHash(cid[1], md, i))
          /\ pc' = "key_digest"
          /\ UNCHANGED failure
       \/ /\ Fail("ASN1_OCTET_STRING_set:name")
          /\ UNCHANGED cid
    /\ UNCHANGED <<Params, nid, md, i, released, ret, prev, dvars>>

\* The octets EVP_Digest is given for the issuer key (line 69):
\* issuerKey->data, issuerKey->length.
KeyDigestInput_WholeEncoding(key) == BitStringDer(key)

KeyDigestInput(key) == SubSeq(key.data, 1, key.length)

\* lines 68-70: EVP_Digest(issuerKey->data, issuerKey->length, md, &i, dgst, NULL)
KeyDigest ==
    /\ pc = "key_digest"
    /\ \/ /\ md' = DigestOf(dgst, KeyDigestInput(issuerKey[1]))
          /\ i' = Len(md')
          /\ pc' = "set_key"
          /\ UNCHANGED failure
       \/ /\ Fail("EVP_Digest")
          /\ UNCHANGED <<md, i>>
    /\ UNCHANGED <<Params, cid, nid, released, ret, prev, dvars>>

SetKeyHash(c, data, len) ==
    [c EXCEPT !.issuerKeyHash = ASN1_OCTET_STRING_set(data, len)]

\* lines 72-73: ASN1_OCTET_STRING_set(cid->issuerKeyHash, md, i)
SetKey ==
    /\ pc = "set_key"
    /\ \/ /\ cid' = Some(SetKeyHash(cid[1], md, i))
          /\ pc' = "serial"
          /\ UNCHANGED failure
       \/ /\ Fail("ASN1_OCTET_STRING_set:key")
          /\ UNCHANGED cid
    /\ UNCHANGED <<Params, nid, md, i, released, ret, prev, dvars>>

\* ASN1_STRING_copy(dst, src): dst takes the octets of src.
\* The serial number copied over the issuer-key hash.
CopySerial_IntoKeyHash(c, serial) ==
    IF serial # None THEN [c EXCEPT !.issuerKeyHash = serial[1]] ELSE c

CopySerial(c, serial) ==
    IF serial # None THEN [c EXCEPT !.serialNumber = serial[1]] ELSE c

\* lines 75-78: if (serialNumber) ASN1_STRING_copy(cid->serialNumber, serialNumber)
Serial ==
    /\ pc = "serial"
    /\ \/ /\ cid' = Some(CopySerial(cid[1], serialNumber))
          /\ pc' = "ret"
          /\ UNCHANGED failure
       \/ /\ serialNumber # None
          /\ Fail("ASN1_STRING_copy")
          /\ UNCHANGED cid
    /\ UNCHANGED <<Params, nid, md, i, released, ret, prev, dvars>>

\* line 79: return cid
ReturnValue(c) == c

Ret ==
    /\ pc = "ret"
    /\ ret' = ReturnValue(cid)
    /\ pc' = "returned"
    /\ UNCHANGED <<Params, cid, nid, md, i, failure, released, prev, dvars>>

\* OCSP_CERTID_free(cid) releases the algorithm object the CertID points at
\* (ASN1_OBJECT_free ignores a null pointer) and then the CertID.
FreeCertId(c, rel) ==
    IF c = None \/ c[1].hashAlgorithm.algorithm = NullObject
      THEN rel
      ELSE Append(rel, c[1].hashAlgorithm.algorithm)

ErrValue_Partial(c) == c

\* The value the err label returns (line 82).
ErrValue(c) == None

\* lines 80-82: err: OCSP_CERTID_free(cid); return NULL
Range(seq) == {seq[k] : k \in DOMAIN seq}

\* The CertID still points at an object that was already released.
Dangling(c, rel) ==
    c # None /\ c[1].hashAlgorithm.algorithm \in Range(rel)

\* Releasing an object a second time has no effect when the object is a
\* static one and corrupts the heap when it is not: the call returns or the
\* process ends.
Err ==
    /\ pc = "err"
    /\ released' = FreeCertId(cid, released)
    /\ \/ /\ ret' = ErrValue(cid)
          /\ cid' = None
          /\ pc' = "returned"
       \/ /\ Dangling(cid, released)
          /\ pc' = "crashed"
          /\ UNCHANGED <<ret, cid>>
    /\ UNCHANGED <<Params, nid, md, i, failure, prev, dvars>>

\* The caller takes the result and is ready for its next call.
Complete ==
    /\ pc = "returned"
    /\ prev' = Some([args |-> args, ret |-> ret, cause |-> CauseOf(failure)])
    /\ pc' = "idle"
    /\ UNCHANGED <<Params, cid, nid, md, i, failure, released, ret, dvars>>

Next == \/ OCSP_cert_to_id \/ OCSP_cert_id_new
        \/ Alloc \/ FreeAlgorithm \/ MdType \/ Nid2Obj \/ Param
        \/ NameDigest \/ SetName \/ KeyDigest \/ SetKey \/ Serial
        \/ Ret \/ Err \/ Complete

Spec == Init /\ [][Next]_vars


----
\* ================================================== the envelope codec
\* Response status codes and the registry number of id-pkix-OCSP-basic.
OCSP_RESPONSE_STATUS_SUCCESSFUL == 0
OCSP_RESPONSE_STATUS_MALFORMEDREQUEST == 1
OCSP_RESPONSE_STATUS_INTERNALERROR == 2
OCSP_RESPONSE_STATUS_TRYLATER == 3
OCSP_RESPONSE_STATUS_SIGREQUIRED == 5
OCSP_RESPONSE_STATUS_UNAUTHORIZED == 6
NID_id_pkix_OCSP_basic == 365
V_OCSP_CERTSTATUS_GOOD == 0
V_OCSP_CERTSTATUS_REVOKED == 1
V_OCSP_CERTSTATUS_UNKNOWN == 2

ResponseStatuses ==
    {OCSP_RESPONSE_STATUS_SUCCESSFUL, OCSP_RESPONSE_STATUS_MALFORMEDREQUEST,
     OCSP_RESPONSE_STATUS_INTERNALERROR, OCSP_RESPONSE_STATUS_TRYLATER,
     OCSP_RESPONSE_STATUS_SIGREQUIRED, OCSP_RESPONSE_STATUS_UNAUTHORIZED}

CertStatuses ==
    {V_OCSP_CERTSTATUS_GOOD, V_OCSP_CERTSTATUS_REVOKED, V_OCSP_CERTSTATUS_UNKNOWN}

\* DER tags of the response grammar (RFC 6960, 4.2.1).
TagSequence == 48
TagEnumerated == 10
TagContext0 == 160
TagObjectId == 6
TagOctetString == 4

\* ---- the wire side: how a responder lays a response out
\* A tag-length-value triple around content octets.
Tlv(tag, content) == <<tag, Len(content)>> \o content

\* A basic response: one octet per single response, its certificate status.
EncodeBasic(singles) == [k \in DOMAIN singles |-> singles[k].certStatus]

EncodeResponseBytes(oid, payload) ==
    Tlv(TagContext0, Tlv(TagSequence, Tlv(TagObjectId, <<oid>>) \o Tlv(TagOctetString, payload)))

EncodeResponse(status, responseBytes) ==
    Tlv(TagSequence, Tlv(TagEnumerated, <<status>>) \o responseBytes)

RECURSIVE SeqsUpTo(_, _)
SeqsUpTo(S, n) ==
    IF n = 0 THEN {<<>>}
    ELSE LET shorter == SeqsUpTo(S, n - 1)
         IN  shorter \cup {Append(q, x) : q \in shorter, x \in S}

\* The basic responses a responder may send, and their encodings.
BasicResponses == SeqsUpTo({[certStatus |-> c] : c \in CertStatuses}, MaxResp)

\* The complete, well-formed successful response carrying basic response b.
WireOf(b) ==
    EncodeResponse(OCSP_RESPONSE_STATUS_SUCCESSFUL,
                   EncodeResponseBytes(NID_id_pkix_OCSP_basic, EncodeBasic(b)))

SuccessfulWire == {WireOf(b) : b \in BasicResponses}

\* Whatever may arrive as the top-level structure: any status octet, with or
\* without response bytes of any type and content.
StatusOctets == 0..7
PayloadOctets == SeqsUpTo(0..3, MaxResp)
Structures ==
    {EncodeResponse(st, <<>>) : st \in StatusOctets}
    \cup {EncodeResponse(st, EncodeResponseBytes(oid, pl)) :
            st \in StatusOctets, oid \in {NID_id_pkix_OCSP_basic, NID_id_pkix_OCSP_basic + 1},
            pl \in PayloadOctets}

Trailers == SeqsUpTo({0}, MaxTrail)

\* The buffers the decoder is given: a structure, cut short or followed by
\* extra bytes.
Buffers ==
    {w \o t : w \in Structures, t \in Trailers}
    \cup UNION {{SubSeq(w, 1, n) : n \in 0..Len(w)} : w \in SuccessfulWire}

\* ---- decode_response
Failed(kind) == Some([error |-> kind, response |-> None])
Decoded(status, basic) ==
    Some([error |-> "none", response |-> Some([status |-> status, basicResponse |-> basic])])

\* The top-level structure accepted although bytes follow it.
TopLevel_Lenient(buf) ==
    IF Len(buf) < 2 \/ buf[1] # TagSequence \/ buf[2] > Len(buf) - 2
      THEN [error |-> "MalformedEncoding", body |-> <<>>]
      ELSE [error |-> "none", body |-> SubSeq(buf, 3, 2 + buf[2])]

\* The top-level structure: its header must be there, its declared length
\* must fit the buffer, and nothing may follow it.
TopLevel(buf) ==
    IF Len(buf) < 2 \/ buf[1] # TagSequence \/ buf[2] > Len(buf) - 2
      THEN [error |-> "MalformedEncoding", body |-> <<>>]
    ELSE IF buf[2] < Len(buf) - 2
      THEN [error |-> "TrailingDataError", body |-> <<>>]
      ELSE [error |-> "none", body |-> SubSeq(buf, 3, 2 + buf[2])]

\* The status field that opens the structure.
StatusField(body) ==
    IF Len(body) < 3 \/ body[1] # TagEnumerated \/ body[2] # 1
      THEN [error |-> "MalformedEncoding", status |-> 0]
    ELSE IF body[3] \notin ResponseStatuses
      THEN [error |-> "UnsupportedStatus", status |-> body[3]]
      ELSE [error |-> "none", status |-> body[3]]

\* The content of a triple that must fill `bytes` exactly; None otherwise.
Content(tag, bytes) ==
    IF Len(bytes) >= 2 /\ bytes[1] = tag /\ bytes[2] = Len(bytes) - 2
      THEN Some(SubSeq(bytes, 3, Len(bytes)))
      ELSE None

\* The response bytes after the status: [0] { SEQUENCE { type, OCTET STRING } },
\* the octet string holding the basic response.
ResponseBytes(rest) ==
    LET outer == Content(TagContext0, rest)
        inner == IF outer = None THEN None ELSE Content(TagSequence, outer[1])
        wellTyped == /\ inner # None /\ Len(inner[1]) >= 3
                     /\ inner[1][1] = TagObjectId /\ inner[1][2] = 1
        octets == IF wellTyped THEN Content(TagOctetString, SubSeq(inner[1], 4, Len(inner[1])))
                               ELSE None
    IN  IF octets = None
          THEN [error |-> "MalformedEncoding", basic |-> <<>>]
        ELSE IF inner[1][3] # NID_id_pkix_OCSP_basic
          THEN [error |-> "UnsupportedResponseType", basic |-> <<>>]
        ELSE IF \E k \in DOMAIN octets[1] : octets[1][k] \notin CertStatuses
          THEN [error |-> "MalformedEncoding", basic |-> <<>>]
          ELSE [error |-> "none",
                basic |-> [k \in DOMAIN octets[1] |-> [certStatus |-> octets[1][k]]]]

ContinuesToPayload_Always(status) == TRUE

\* Only a successful status continues into the response bytes.
ContinuesToPayload(status) == status = OCSP_RESPONSE_STATUS_SUCCESSFUL

DFail(kind) ==
    /\ dret' = Failed(kind)
    /\ dstatus' = None /\ dbasic' = None /\ drest' = <<>>
    /\ dpc' = "Terminal"

\* d2i_OCSP_RESPONSE_bio(in, res): the client hands a buffer to the decoder.
d2i_OCSP_RESPONSE_bio ==
    /\ dpc = "Idle"
    /\ \E buf \in Buffers : din' = buf
    /\ drest' = <<>> /\ dstatus' = None /\ dbasic' = None /\ dret' = None
    /\ dpc' = "Start"
    /\ UNCHANGED cvars

\* Start -> StatusParsed
ParseStatus ==
    /\ dpc = "Start"
    /\ LET top == TopLevel(din)
           st == StatusField(top.body)
       IN  IF top.error # "none" THEN DFail(top.error)
           ELSE IF st.error # "none" THEN DFail(st.error)
           ELSE /\ dstatus' = Some(st.status)
                /\ drest' = SubSeq(top.body, 4, Len(top.body))
                /\ dpc' = "StatusParsed"
                /\ UNCHANGED <<dbasic, dret>>
    /\ UNCHANGED <<din, cvars>>

\* StatusParsed -> Terminal, for a status that carries no basic response
FinishStatusOnly ==
    /\ dpc = "StatusParsed"
    /\ ~ContinuesToPayload(dstatus[1])
    /\ dret' = Decoded(dstatus[1], None)
    /\ dpc' = "Terminal"
    /\ UNCHANGED <<din, drest, dstatus, dbasic, cvars>>

\* StatusParsed -> BasicResponseParsed
ParseBasic ==
    /\ dpc = "StatusParsed"
    /\ ContinuesToPayload(dstatus[1])
    /\ LET rb == ResponseBytes(drest)
       IN  IF rb.error # "none" THEN DFail(rb.error)
           ELSE /\ dbasic' = Some(rb.basic)
                /\ dpc' = "BasicResponseParsed"
                /\ UNCHANGED <<drest, dstatus, dret>>
    /\ UNCHANGED <<din, cvars>>

\* BasicResponseParsed -> Terminal
FinishBasic ==
    /\ dpc = "BasicResponseParsed"
    /\ dret' = Decoded(dstatus[1], dbasic)
    /\ dpc' = "Terminal"
    /\ UNCHANGED <<din, drest, dstatus, dbasic, cvars>>

\* The client takes the outcome.
DecodeDone ==
    /\ dpc = "Terminal"
    /\ dpc' = "Idle"
    /\ din' = <<>> /\ drest' = <<>> /\ dstatus' = None /\ dbasic' = None /\ dret' = None
    /\ UNCHANGED cvars

DNext == \/ d2i_OCSP_RESPONSE_bio \/ ParseStatus \/ FinishStatusOnly
         \/ ParseBasic \/ FinishBasic \/ DecodeDone

SpecDecode == Init /\ [][DNext]_vars
----
\* ===================================================== properties
ToIdReturned == pc = "returned" /\ args.api = "OCSP_cert_to_id"
Built == pc = "returned" /\ ret # None

\* The previous call and the running one are both OCSP_cert_to_id calls
\* that returned a CertID.
BothBuilt ==
    /\ ToIdReturned /\ ret # None
    /\ prev # None /\ prev[1].args.api = "OCSP_cert_to_id" /\ prev[1].ret # None

\* C1: OCSP_cert_to_id with a subject certificate hashes the subject's
\* issuer field into issuerNameHash and takes the subject's serial number;
\* without a subject certificate it hashes the issuer certificate's own
\* subject field and leaves the CertID's serial number unset.
C1_NameAndSerialSource ==
    (ToIdReturned /\ ret # None) =>
        IF args.subject # None
          THEN /\ ret[1].issuerNameHash = DigestOf(dgst, NameDer(args.subject[1].issuer))
               /\ ret[1].serialNumber = args.subject[1].serialNumber
          ELSE /\ ret[1].issuerNameHash = DigestOf(dgst, NameDer(args.issuer[1].subject))
               /\ ret[1].serialNumber = <<>>

\* A call with a subject whose issuer field is not the issuer certificate's
\* subject returned a CertID, after a call without subject did.
C1_Witness ==
    /\ BothBuilt
    /\ prev[1].args.subject = None
    /\ args.subject # None
    /\ args.subject[1].issuer # args.issuer[1].subject

\* C2: construction is all-or-nothing: whichever stage of OCSP_cert_id_new
\* fails, no CertID is returned; a CertID is returned only when no stage
\* failed, with hashAlgorithm, issuerNameHash and issuerKeyHash all set.
C2_AllOrNothing ==
    /\ (pc \in {"returned", "crashed"} /\ failure # "none") => ret = None
    /\ Built =>
         /\ failure = "none"
         /\ ret[1].hashAlgorithm.algorithm.obj = "registered"
         /\ ret[1].hashAlgorithm.parameter = Some([type |-> V_ASN1_NULL])
         /\ ret[1].issuerNameHash # <<>>
         /\ ret[1].issuerKeyHash # <<>>

\* The last stage failed, with both hashes already in the CertID, and the
\* call returned.
C2_Witness ==
    pc = "returned" /\ failure = "ASN1_STRING_copy" /\ ret = None

\* C3: a CertID returned by OCSP_cert_to_id for digest D names D as its
\* hashAlgorithm and both hashes have D's output length.
C3_AlgorithmAndLengths ==
    (ToIdReturned /\ ret # None /\ args.dgst # "NULL") =>
        /\ ret[1].hashAlgorithm.algorithm = OBJ_nid2obj(EVP_MD_type(args.dgst))
        /\ Len(ret[1].issuerNameHash) = EVP_MD_size(args.dgst)
        /\ Len(ret[1].issuerKeyHash) = EVP_MD_size(args.dgst)

\* Two digests of different output length each produced a CertID.
C3_Witness ==
    /\ BothBuilt
    /\ args.dgst = "SHA256" /\ prev[1].args.dgst = "SHA1"

\* Two calls whose arguments are the same but for the digest, absent in one
\* and SHA-1 in the other.
SameButDefaultDigest(a, b) ==
    /\ a.dgst = "NULL" /\ b.dgst = "SHA1"
    /\ [a EXCEPT !.dgst = "SHA1"] = b

\* C4 as stated, for OCSP_cert_to_id and OCSP_cert_id_new alike: a call
\* without digest completes and builds what a call with SHA-1 builds.
C4_DefaultsToSha1_BothFunctions ==
    (args.api # "none" /\ args.dgst = "NULL") =>
        /\ pc # "crashed"
        /\ (pc = "returned" /\ failure = "none") =>
              /\ ret # None
              /\ ret[1].hashAlgorithm.algorithm = OBJ_nid2obj(EVP_MD_type("SHA1"))

\* C4 (amended): OCSP_cert_to_id called without digest builds the CertID
\* with SHA-1: the call never ends abnormally, its CertID names SHA-1 and
\* equals the one the same call with SHA-1 returns.
C4_CertToIdDefaultsToSha1 ==
    /\ (args.api = "OCSP_cert_to_id" /\ args.dgst = "NULL") =>
          /\ pc # "crashed"
          /\ Built =>
               /\ ret[1].hashAlgorithm.algorithm = OBJ_nid2obj(EVP_MD_type("SHA1"))
               /\ Len(ret[1].issuerNameHash) = EVP_MD_size("SHA1")
    /\ (BothBuilt /\ (\/ SameButDefaultDigest(args, prev[1].args)
                      \/ SameButDefaultDigest(prev[1].args, args))) =>
          ret = prev[1].ret

\* A call without digest returned a CertID after the same call with SHA-1.
C4_Witness ==
    BothBuilt /\ SameButDefaultDigest(args, prev[1].args)

\* Two OCSP_cert_to_id calls with the same digest and issuer whose subject
\* certificates differ in the serial number only.
SerialOnly(a, b) ==
    /\ a.dgst = b.dgst /\ a.issuer = b.issuer
    /\ a.subject # None /\ b.subject # None
    /\ a.subject[1].serialNumber # b.subject[1].serialNumber
    /\ [a.subject[1] EXCEPT !.serialNumber = b.subject[1].serialNumber] = b.subject[1]

\* C5: two CertIDs built for the same digest and issuer from subjects that
\* differ only in their serial number differ only in serialNumber.
C5_SerialChangesOnlySerial ==
    (BothBuilt /\ SerialOnly(prev[1].args, args)) =>
        /\ ret[1].hashAlgorithm = prev[1].ret[1].hashAlgorithm
        /\ ret[1].issuerNameHash = prev[1].ret[1].issuerNameHash
        /\ ret[1].issuerKeyHash = prev[1].ret[1].issuerKeyHash
        /\ ret[1].serialNumber # prev[1].ret[1].serialNumber

C5_Witness ==
    BothBuilt /\ SerialOnly(prev[1].args, args)

\* C6: the issuer-key hash of a CertID built by OCSP_cert_to_id is the digest
\* of the content octets of the issuer certificate's public-key bit string,
\* with or without a subject certificate, whatever the subject is.
C6_KeyHashOverContentOctets ==
    /\ (ToIdReturned /\ ret # None) =>
          ret[1].issuerKeyHash =
              DigestOf(dgst, SubSeq(args.issuer[1].pubkey.data, 1, args.issuer[1].pubkey.length))
    /\ (BothBuilt /\ args.dgst = prev[1].args.dgst /\ args.issuer = prev[1].args.issuer) =>
          ret[1].issuerKeyHash = prev[1].ret[1].issuerKeyHash

\* A CertID was built with a subject whose own key is not the issuer's,
\* after one built without subject.
C6_Witness ==
    /\ BothBuilt
    /\ args.issuer = prev[1].args.issuer
    /\ prev[1].args.subject = None /\ args.subject # None
    /\ args.subject[1].pubkey # args.issuer[1].pubkey

TaxonomyCauses == {"UnsupportedDigest", "EncodingError", "DigestError"}

\* C7 as stated: the caller can tell the three causes apart, so two calls
\* that failed for different causes do not report the same thing.
C7_CausesDistinguishable ==
    (/\ pc = "returned" /\ prev # None
     /\ CauseOf(failure) \in TaxonomyCauses /\ prev[1].cause \in TaxonomyCauses
     /\ CauseOf(failure) # prev[1].cause) =>
        ret # prev[1].ret

\* C7 (amended): a call that fails for an unsupported digest, for a name
\* that does not encode or for a failing hash returns no CertID, which is
\* also what every other failed call returned: the cause is not reported.
C7_FailuresReturnNull ==
    (pc = "returned" /\ CauseOf(failure) \in TaxonomyCauses) =>
        /\ ret = None
        /\ (prev # None /\ prev[1].cause # "none") => prev[1].ret = ret

\* A call failed for one of the three causes after a call that failed for
\* another of them.
C7_Witness ==
    /\ pc = "returned" /\ prev # None
    /\ CauseOf(failure) \in TaxonomyCauses /\ prev[1].cause \in TaxonomyCauses
    /\ CauseOf(failure) # prev[1].cause

\* C10: no object of the CertID is released twice, and the CertID that the
\* err label is about to release does not point at an object that was
\* already released.
C10_ReleasedAtMostOnce ==
    /\ \A j, k \in DOMAIN released : j # k => released[j] # released[k]
    /\ pc = "err" => ~Dangling(cid, released)

\* The buffer is a complete well-formed successful response followed by at
\* least one more byte.
SuccessfulWithTrailer(buf) ==
    \E w \in SuccessfulWire : \E t \in Trailers \ {<<>>} : buf = w \o t

\* C8: decode_response of a complete successful response followed by extra
\* bytes fails with TrailingDataError and yields no Response.
C8_TrailingBytesRejected ==
    (dpc = "Terminal" /\ SuccessfulWithTrailer(din)) =>
        dret = Failed("TrailingDataError")

\* Such a buffer, carrying a basic response with entries, was decoded to
\* the end.
C8_Witness ==
    /\ dpc = "Terminal"
    /\ \E b \in BasicResponses : \E t \in Trailers \ {<<>>} :
          b # <<>> /\ din = WireOf(b) \o t

DecodeTransitions ==
    {<<"Idle", "Start">>, <<"Start", "StatusParsed">>, <<"Start", "Terminal">>,
     <<"StatusParsed", "Terminal">>, <<"StatusParsed", "BasicResponseParsed">>,
     <<"BasicResponseParsed", "Terminal">>, <<"Terminal", "Idle">>}

C9_Step ==
    /\ (dpc' # dpc) => <<dpc, dpc'>> \in DecodeTransitions
    /\ (dpc = "Start" /\ dpc' = "Terminal") => dret'[1].error # "none"
    /\ (dbasic' # None /\ dbasic' # dbasic) =>
          /\ dpc = "StatusParsed" /\ dpc' = "BasicResponseParsed"
          /\ dstatus = Some(OCSP_RESPONSE_STATUS_SUCCESSFUL)
    /\ (dpc # "Terminal" /\ dpc' = "Terminal") =>
          /\ dret' # None
          /\ (dret'[1].error # "none") <=> (dret'[1].response = None)
          /\ dret'[1].error # "none" => (dstatus' = None /\ dbasic' = None)
          /\ dret'[1].response # None =>
               ((dret'[1].response[1].basicResponse # None)
                  <=> (dret'[1].response[1].status = OCSP_RESPONSE_STATUS_SUCCESSFUL))

\* C9: every decode_response run goes Start -> StatusParsed -> Terminal for
\* a status other than Successful, or -> BasicResponseParsed -> Terminal;
\* the response bytes are decoded only after a Successful status was parsed;
\* a Response has a BasicResponse iff its status is Successful; a run that
\* fails at any stage ends with one error and no Response.
C9_DecodeStateMachine == [][C9_Step]_vars

\* A run went through BasicResponseParsed and ended with a Successful
\* Response whose basic response has several entries.
C9_Witness ==
    /\ dpc = "Terminal" /\ dret # None /\ dret[1].response # None
    /\ dret[1].response[1].status = OCSP_RESPONSE_STATUS_SUCCESSFUL
    /\ dret[1].response[1].basicResponse # None
    /\ Len(dret[1].response[1].basicResponse[1]) >= 2

====
